---- MODULE Spec2Model ----
(***************************************************************************)
(* Model of pygraspi/graph_descriptors.py: a labelled voxel grid is mapped *)
(* onto an adjacency graph (makeImageGraph), the 0/1 interface is          *)
(* collapsed into the meta-vertex -1 (makeInterfaceEdges), and descriptors *)
(* are read from the collapsed graph.                                      *)
(*                                                                         *)
(* A networkx Graph is modelled by its node set, its edge set (an edge is  *)
(* the set of its endpoints, so a self-loop is a singleton) and the        *)
(* "color" attribute of every node.                                        *)
(***************************************************************************)
EXTENDS Integers, FiniteSets, Sequences, TLC

VARIABLES shape, morph, stage, nodes, edges, color, collapses, last

vars == <<shape, morph, stage, nodes, edges, color, collapses, last>>

----------------------------------------------------------------------------
(* Bounds of the model *)

\* an image has at most MaxVoxels voxels
MaxVoxels == 4
\* voxel labels are 0..MaxLabel (0 and 1 are the phases, the rest "other")
MaxLabel == 2
\* makeInterfaceEdges is applied at most MaxCollapses times to one graph
MaxCollapses == 2

----------------------------------------------------------------------------
(* Program constants *)

\* index of the interface meta-vertex: G.add_node(-1, color="green")
Boundary == -1
\* the color "green" of the meta-vertex; it compares unequal to every
\* integer label, and is encoded as an integer outside the label range
Green == -2

NoGraph == [n \in {} |-> 0]

----------------------------------------------------------------------------
(* Arrays: shape, row-major flattening *)

RECURSIVE Product(_, _)
Product(s, k) == IF k > Len(s) THEN 1 ELSE s[k] * Product(s, k + 1)

\* number of elements of an array of shape s
Size(s) == Product(s, 1)

\* row-major stride of axis k
Stride(s, k) == Product(s, k + 1)

\* coordinate of flat index i along axis k
Coord(s, i, k) == (i \div Stride(s, k)) % s[k]

Voxels(s) == 0 .. (Size(s) - 1)

Shapes == UNION {{s \in [1 .. r -> 1 .. MaxVoxels] : Size(s) <= MaxVoxels} : r \in 2 .. 3}

Labels == 0 .. MaxLabel

----------------------------------------------------------------------------
(* make_grid_graph: nodes are the flat indices, one edge per pair of       *)
(* orthogonal neighbours                                                   *)

make_grid_graph(s) ==
    [nodes |-> Voxels(s),
     edges |-> {{i, i + Stride(s, k)} : <<i, k>> \in
                  {p \in Voxels(s) \X (1 .. Len(s)) : Coord(s, p[1], p[2]) + 1 < s[p[2]]}}]

----------------------------------------------------------------------------
(* makeImageGraph *)

\* morph.flatten(): the model keeps the array flat, indexed from 0
makeImageGraph(s, m) ==
    LET G == make_grid_graph(s)
    IN  [nodes |-> G.nodes, edges |-> G.edges, color |-> [i \in G.nodes |-> m[i]]]

----------------------------------------------------------------------------
(* makeInterfaceEdges *)

node_phaseA(n, c) == c[n] = 0

\* variant: phase B is taken to be "anything but phase A"
node_phaseB_NotA(n, c) == c[n] # 0

node_phaseB(n, c) == c[n] = 1

\* the orientations (n, u) in which G.edges() may report edge e
Orientations(e) == {p \in e \X e : {p[1], p[2]} = e}

\* variant: the second disjunct of the comprehension is forgotten, and only
\* the orientation (lower index, higher index) is looked at
InterfaceOf_OneWay(E, c) ==
    {e \in E : \E p \in Orientations(e) :
        p[1] < p[2] /\ node_phaseA(p[1], c) /\ node_phaseB(p[2], c)}

\* the list comprehension of makeInterfaceEdges: the edges with one
\* endpoint of phase A and the other of phase B
InterfaceOf(E, c) ==
    {e \in E : \E p \in Orientations(e) :
        \/ (node_phaseA(p[1], c) /\ node_phaseB(p[2], c))
        \/ (node_phaseB(p[1], c) /\ node_phaseA(p[2], c))}

\* variant: only the first endpoint n of every (n, u) is kept
UniqueEndpoints_FirstOnly(I) ==
    {x \in UNION I : \E e \in I : x \in e /\ \A y \in e : x <= y}

\* np.unique(np.array(interface)): the distinct endpoints
UniqueEndpoints(I) == UNION I

\* variant: adding a node that exists replaces it by a fresh one, which
\* loses its edges
AddNode_Fresh(G, n, c) ==
    [nodes |-> G.nodes \cup {n},
     edges |-> {e \in G.edges : n \notin e},
     color |-> [x \in G.nodes \cup {n} |-> IF x = n THEN c ELSE G.color[x]]]

\* G.add_node(n, color=c): a new node, or new attributes for an old one
AddNode(G, n, c) ==
    [nodes |-> G.nodes \cup {n},
     edges |-> G.edges,
     color |-> [x \in G.nodes \cup {n} |-> IF x = n THEN c ELSE G.color[x]]]

\* variant: an image without interface edges is returned as it is
makeInterfaceEdges_SkipEmpty(G) ==
    LET interface == InterfaceOf(G.edges, G.color)
        G1 == [G EXCEPT !.edges = G.edges \ interface]
        G2 == AddNode(G1, Boundary, Green)
        interface_edges == {{x, Boundary} : x \in UniqueEndpoints(interface)}
    IN  IF interface = {} THEN G
        ELSE [G2 EXCEPT !.edges = G2.edges \cup interface_edges]

\* variant: the meta-vertex is given the color of phase 0
makeInterfaceEdges_Phase0(G) ==
    LET interface == InterfaceOf(G.edges, G.color)
        G1 == [G EXCEPT !.edges = G.edges \ interface]
        G2 == AddNode(G1, Boundary, 0)
        interface_edges == {{x, Boundary} : x \in UniqueEndpoints(interface)}
    IN  [G2 EXCEPT !.edges = G2.edges \cup interface_edges]

\* variant: the edges to the meta-vertex are never added
makeInterfaceEdges_NoStar(G) ==
    LET interface == InterfaceOf(G.edges, G.color)
        G1 == [G EXCEPT !.edges = G.edges \ interface]
    IN  AddNode(G1, Boundary, Green)

makeInterfaceEdges(G) ==
    LET interface == InterfaceOf(G.edges, G.color)
        G1 == [G EXCEPT !.edges = G.edges \ interface]
        G2 == AddNode(G1, Boundary, Green)
        interface_edges == {{x, Boundary} : x \in UniqueEndpoints(interface)}
    IN  [G2 EXCEPT !.edges = G2.edges \cup interface_edges]

----------------------------------------------------------------------------
(* Graph helpers standing for the networkx primitives *)

\* G.neighbors(n) / G.adj[n]
Neighbors(E, n) == {x \in UNION E : {n, x} \in E}

\* G.degree[n]: the incident edges, a self-loop counted twice
Degree(E, n) == Cardinality({e \in E : n \in e}) + (IF {n} \in E THEN 1 ELSE 0)

\* G.subgraph(S).edges
InducedEdges(E, S) == {e \in E : e \subseteq S}

Ok(v) == [err |-> "", val |-> v]

Raise(e) == [err |-> e, val |-> <<>>]

RECURSIVE SumOver(_, _)
SumOver(f, S) ==
    IF S = {} THEN 0
    ELSE LET x == CHOOSE y \in S : TRUE IN f[x] + SumOver(f, S \ {x})

\* sum(path_length) / len(path_length); the quotient is kept exact as the
\* pair <<sum, len>>
Mean(f, S) ==
    IF S = {} THEN Raise("ZeroDivisionError")
    ELSE Ok(<<SumOver(f, S), Cardinality(S)>>)

\* nx.single_source_shortest_path: breadth-first levels; every newly met
\* node w gets paths[w] = paths[v] + [w].  pl[w] is len(paths[w]).
RECURSIVE PathLengths(_, _, _)
PathLengths(E, thislevel, pl) ==
    LET nextlevel == (UNION {Neighbors(E, v) : v \in thislevel}) \ DOMAIN pl
        pl2 == [w \in DOMAIN pl \cup nextlevel |->
                  IF w \in DOMAIN pl THEN pl[w]
                  ELSE pl[CHOOSE v \in thislevel : w \in Neighbors(E, v)] + 1]
    IN  IF nextlevel = {} THEN pl ELSE PathLengths(E, nextlevel, pl2)

\* variant: a path is measured by its edges, not by its nodes
single_source_shortest_path_Hops(E, source) ==
    PathLengths(E, {source}, [v \in {source} |-> 0])

single_source_shortest_path(E, source) ==
    PathLengths(E, {source}, [v \in {source} |-> 1])

\* nx.number_connected_components of the graph (S, E)
RECURSIVE number_connected_components(_, _)
number_connected_components(S, E) ==
    IF S = {} THEN 0
    ELSE LET s == CHOOSE x \in S : TRUE
             comp == DOMAIN single_source_shortest_path(E, s)
         IN  1 + number_connected_components(S \ comp, E)

----------------------------------------------------------------------------
(* Descriptors *)

count_of_vertices(G, phase) ==
    Cardinality({n \in G.nodes : G.color[n] = phase})

makeConnectedComponents(G, phase) ==
    LET sub == {n \in G.nodes : G.color[n] = phase}
    IN  number_connected_components(sub, InducedEdges(G.edges, sub))

\* variant: the area is the number of phase-0 neighbours
interfaceArea_Phase0Only(G) ==
    IF Boundary \notin G.nodes THEN Raise("NetworkXError")
    ELSE LET nodes_0 == {n \in Neighbors(G.edges, Boundary) : G.color[n] = 0}
             nodes_1 == {n \in Neighbors(G.edges, Boundary) : G.color[n] = 1}
         IN  Ok(<<Cardinality(nodes_0), Cardinality(nodes_0), Cardinality(nodes_1)>>)

interfaceArea(G) ==
    IF Boundary \notin G.nodes THEN Raise("NetworkXError")
    ELSE LET nodes_0 == {n \in Neighbors(G.edges, Boundary) : G.color[n] = 0}
             nodes_1 == {n \in Neighbors(G.edges, Boundary) : G.color[n] = 1}
         IN  Ok(<<Degree(G.edges, Boundary), Cardinality(nodes_0), Cardinality(nodes_1)>>)

shortest_distances_all(G) ==
    IF Boundary \notin G.nodes THEN Raise("NodeNotFound")
    ELSE LET path == single_source_shortest_path(G.edges, Boundary)
         IN  Mean(path, DOMAIN path \ {Boundary})

shortest_distances_phase(G, phase) ==
    LET source == {n \in G.nodes : G.color[n] = phase}
        path(s) == single_source_shortest_path(G.edges, s)
    IN  IF source = {} THEN Raise("ZeroDivisionError")
        ELSE IF Boundary \notin G.nodes THEN Raise("NodeNotFound")
        ELSE IF \E s \in source : Boundary \notin DOMAIN path(s)
             THEN Raise("NetworkXNoPath")
        ELSE Mean([s \in source |-> path(s)[Boundary]], source)

\* the keyword arguments of dict(...) are evaluated in order; the first
\* exception leaves the function
getGraspiDescriptors(s, data) ==
    LET g == makeInterfaceEdges(makeImageGraph(s, data))
        ia == interfaceArea(g)
        da == shortest_distances_all(g)
        d0 == shortest_distances_phase(g, 0)
        d1 == shortest_distances_phase(g, 1)
    IN  IF da.err # "" THEN da
        ELSE IF d0.err # "" THEN d0
        ELSE IF d1.err # "" THEN d1
        ELSE Ok([phase_0_count |-> count_of_vertices(g, 0),
                 phase_1_count |-> count_of_vertices(g, 1),
                 phase_0_cc |-> makeConnectedComponents(g, 0),
                 phase_1_cc |-> makeConnectedComponents(g, 1),
                 interfacial_area |-> ia.val[1],
                 phase_0_interface |-> ia.val[2],
                 phase_1_interface |-> ia.val[3],
                 distance_to_interface |-> da.val,
                 distance_to_interface_0 |-> d0.val,
                 distance_to_interface_1 |-> d1.val])

----------------------------------------------------------------------------
(* State machine: one image, its graph object, and the outcome of the     *)
(* most recent call                                                        *)

Graph == [nodes |-> nodes, edges |-> edges, color |-> color]

Result(op, phase, r) == [op |-> op, phase |-> phase, err |-> r.err, val |-> r.val]

NoResult == Result("none", 0, Ok(<<>>))

Init ==
    /\ shape \in Shapes
    /\ morph \in [Voxels(shape) -> Labels]
    /\ stage = "image"
    /\ nodes = {}
    /\ edges = {}
    /\ color = NoGraph
    /\ collapses = 0
    /\ last = NoResult

SetGraph(G) ==
    /\ nodes' = G.nodes
    /\ edges' = G.edges
    /\ color' = G.color

MakeImageGraph ==
    /\ stage = "image"
    /\ SetGraph(makeImageGraph(shape, morph))
    /\ stage' = "graph"
    /\ last' = Result("makeImageGraph", 0, Ok(<<>>))
    /\ UNCHANGED <<shape, morph, collapses>>

\* the graph object is mutated in place and returned
MakeInterfaceEdges ==
    /\ stage = "graph"
    /\ collapses < MaxCollapses
    /\ SetGraph(makeInterfaceEdges(Graph))
    /\ collapses' = collapses + 1
    /\ last' = Result("makeInterfaceEdges", 0, Ok(<<>>))
    /\ UNCHANGED <<shape, morph, stage>>

Query(r) ==
    /\ stage = "graph"
    /\ last' = r
    /\ UNCHANGED <<shape, morph, stage, nodes, edges, color, collapses>>

CountOfVertices ==
    \E p \in Labels : Query(Result("count_of_vertices", p, Ok(<<count_of_vertices(Graph, p)>>)))

MakeConnectedComponents ==
    \E p \in Labels :
        Query(Result("makeConnectedComponents", p, Ok(<<makeConnectedComponents(Graph, p)>>)))

InterfaceArea == Query(Result("interfaceArea", 0, interfaceArea(Graph)))

ShortestDistancesAll == Query(Result("shortest_distances_all", 0, shortest_distances_all(Graph)))

ShortestDistancesPhase ==
    \E p \in Labels :
        Query(Result("shortest_distances_phase", p, shortest_distances_phase(Graph, p)))

\* the facade builds and collapses its own graph
GetGraspiDescriptors ==
    /\ stage = "image"
    /\ SetGraph(makeInterfaceEdges(makeImageGraph(shape, morph)))
    /\ collapses' = 1
    /\ stage' = "described"
    /\ last' = Result("getGraspiDescriptors", 0, getGraspiDescriptors(shape, morph))
    /\ UNCHANGED <<shape, morph>>

Next ==
    \/ MakeImageGraph
    \/ MakeInterfaceEdges
    \/ CountOfVertices
    \/ MakeConnectedComponents
    \/ InterfaceArea
    \/ ShortestDistancesAll
    \/ ShortestDistancesPhase
    \/ GetGraspiDescriptors

Spec == Init /\ [][Next]_vars

----------------------------------------------------------------------------
(* The image, described from the array alone *)

Abs(x) == IF x < 0 THEN -x ELSE x

RECURSIVE Manhattan(_, _, _, _)
Manhattan(s, a, b, k) ==
    IF k > Len(s) THEN 0
    ELSE Abs(Coord(s, a, k) - Coord(s, b, k)) + Manhattan(s, a, b, k + 1)

\* voxels a and b are orthogonal neighbours in the grid
OrthAdjacent(a, b) == Manhattan(shape, a, b, 1) = 1

AllVoxels == Voxels(shape)

\* every label of the image is 0 or 1
ZeroOneImage == \A v \in AllVoxels : morph[v] \in {0, 1}

\* all voxels carry one and the same label
SinglePhaseImage == \A v, u \in AllVoxels : morph[v] = morph[u]

\* voxels with an orthogonal neighbour of a different label
DifferingNeighbourVoxels ==
    {v \in AllVoxels : \E u \in AllVoxels : OrthAdjacent(v, u) /\ morph[u] # morph[v]}

\* the interface adjacencies: pairs of orthogonal neighbours, one of phase
\* 0 and one of phase 1
InterfaceAdjacencies ==
    {e \in {{a, b} : <<a, b>> \in AllVoxels \X AllVoxels} :
        \E a, b \in e : OrthAdjacent(a, b) /\ morph[a] = 0 /\ morph[b] = 1}

\* the voxels lying on the 0/1 interface
InterfaceVoxels == UNION InterfaceAdjacencies

\* the cluster of phase p around the voxels S, grown to its fixed point
RECURSIVE Cluster(_, _)
Cluster(S, p) ==
    LET T == S \cup {u \in AllVoxels :
                        morph[u] = p /\ \E v \in S : OrthAdjacent(v, u)}
    IN  IF T = S THEN S ELSE Cluster(T, p)

\* number of clusters of phase p in the image
PhaseClusters(p) ==
    Cardinality({Cluster({v}, p) : v \in {u \in AllVoxels : morph[u] = p}})

----------------------------------------------------------------------------
(* The graph in the current state, described by hop distance *)

\* the nodes at most k edges away from S
RECURSIVE Within(_, _)
Within(S, k) ==
    IF k = 0 THEN S
    ELSE LET B == Within(S, k - 1)
         IN  B \cup {x \in nodes : \E y \in B : {x, y} \in edges}

ReachableFromBoundary == Within({Boundary}, Cardinality(nodes)) \ {Boundary}

\* hop distance from the boundary node to a node reachable from it
HopDistance(v) == CHOOSE k \in 0 .. Cardinality(nodes) :
                      /\ v \in Within({Boundary}, k)
                      /\ k > 0 => v \notin Within({Boundary}, k - 1)

RECURSIVE SumNodeCounts(_)
SumNodeCounts(S) ==
    IF S = {} THEN 0
    ELSE LET v == CHOOSE x \in S : TRUE
         IN  (HopDistance(v) + 1) + SumNodeCounts(S \ {v})

\* the graph is the result of one makeInterfaceEdges on an image graph
CollapsedOnce == collapses = 1

Returned(op) == last.op = op /\ last.err = ""

----------------------------------------------------------------------------
(* Claims *)

\* C1: for a 0/1-labelled grid, after makeImageGraph and makeInterfaceEdges
\* the neighbours of the boundary node -1 are exactly the voxels that have
\* an orthogonally adjacent voxel of the other phase in the original grid,
\* and every edge at -1 joins it to one of these voxels.
C1_StarLeaves ==
    (CollapsedOnce /\ ZeroOneImage) =>
        /\ Neighbors(edges, Boundary) = DifferingNeighbourVoxels
        /\ {e \in edges : Boundary \in e} =
               {{v, Boundary} : v \in DifferingNeighbourVoxels}

C1_Witness ==
    /\ CollapsedOnce /\ ZeroOneImage
    /\ Neighbors(edges, Boundary) # {}
    /\ Neighbors(edges, Boundary) # AllVoxels

\* C2 (as stated): after makeInterfaceEdges every edge is either between two
\* voxels of equal color or between a voxel and the boundary node -1.
C2_NoDifferingColorEdge ==
    CollapsedOnce =>
        \A e \in edges :
            \/ e \subseteq AllVoxels /\ \A a, b \in e : color[a] = color[b]
            \/ \E v \in AllVoxels : e = {v, Boundary}

\* C2 (amended): after makeInterfaceEdges no edge connects a voxel of color
\* 0 with a voxel of color 1; every remaining edge is either between two
\* voxels that are not such a 0/1 pair or between a voxel and the boundary
\* node -1.
C2_NoZeroOneEdge ==
    CollapsedOnce =>
        \A e \in edges :
            \/ e \subseteq AllVoxels /\ {color[a] : a \in e} # {0, 1}
            \/ \E v \in AllVoxels : e = {v, Boundary}

C2_Witness ==
    /\ CollapsedOnce
    /\ InterfaceAdjacencies # {}
    /\ \E e \in edges : e \subseteq AllVoxels /\ \E a, b \in e : color[a] # color[b]

\* C3: after makeInterfaceEdges(makeImageGraph(data)) the graph has exactly
\* product(shape) + 1 nodes: the voxel nodes 0..product(shape)-1 with their
\* colors unchanged, plus the one boundary node -1, also when the image has
\* no interface edge.
C3_NodeCount ==
    CollapsedOnce =>
        /\ nodes = AllVoxels \cup {Boundary}
        /\ Cardinality(nodes) = Size(shape) + 1
        /\ \A v \in AllVoxels : color[v] = morph[v]

C3_Witness ==
    /\ CollapsedOnce
    /\ InterfaceAdjacencies = {}
    /\ Boundary \in nodes
    /\ Degree(edges, Boundary) = 0

\* C4: the triplet (area, n0, n1) returned by interfaceArea on a collapsed
\* graph satisfies n0 + n1 = area, for every input array including those
\* with labels other than 0 and 1; the same holds of the fields of
\* getGraspiDescriptors.
C4_AreaSplits ==
    /\ (collapses >= 1 /\ Returned("interfaceArea")) =>
           last.val[2] + last.val[3] = last.val[1]
    /\ Returned("getGraspiDescriptors") =>
           last.val.phase_0_interface + last.val.phase_1_interface
               = last.val.interfacial_area

C4_Witness ==
    /\ collapses >= 1 /\ Returned("interfaceArea")
    /\ last.val[1] > 0
    /\ \E v \in AllVoxels : morph[v] \notin {0, 1}

\* C5 (as stated): interfacial_area equals the number of interface
\* adjacencies, the pairs of orthogonally adjacent voxels of differing phase
\* (the number of edges removed by makeInterfaceEdges).
C5_AreaIsAdjacencyCount ==
    /\ (CollapsedOnce /\ Returned("interfaceArea")) =>
           last.val[1] = Cardinality(InterfaceAdjacencies)
    /\ Returned("getGraspiDescriptors") =>
           last.val.interfacial_area = Cardinality(InterfaceAdjacencies)

\* C5 (amended): interfacial_area equals the number of distinct voxels that
\* are an endpoint of at least one interface adjacency (the degree of -1),
\* not the number of adjacencies.
C5_AreaIsInterfaceVoxelCount ==
    /\ (CollapsedOnce /\ Returned("interfaceArea")) =>
           last.val[1] = Cardinality(InterfaceVoxels)
    /\ Returned("getGraspiDescriptors") =>
           last.val.interfacial_area = Cardinality(InterfaceVoxels)

C5_Witness ==
    /\ CollapsedOnce /\ Returned("interfaceArea")
    /\ last.val[1] > 0
    /\ last.val[1] # Cardinality(InterfaceAdjacencies)

\* C6: for p in {0, 1}, makeConnectedComponents(g, p) on the collapsed graph
\* equals the number of clusters of phase-p voxels of the original image
\* under orthogonal adjacency; a phase without voxels gives 0.
C6_ComponentsAreClusters ==
    /\ (CollapsedOnce /\ Returned("makeConnectedComponents")
            /\ last.phase \in {0, 1}) =>
           last.val[1] = PhaseClusters(last.phase)
    /\ Returned("getGraspiDescriptors") =>
           /\ last.val.phase_0_cc = PhaseClusters(0)
           /\ last.val.phase_1_cc = PhaseClusters(1)

C6_Witness ==
    /\ CollapsedOnce /\ Returned("makeConnectedComponents")
    /\ last.phase \in {0, 1}
    /\ last.val[1] >= 2
    /\ \E v \in Neighbors(edges, Boundary) : color[v] = last.phase

\* C7: on a collapsed graph with a voxel reachable from -1,
\* shortest_distances_all returns the mean, over exactly the voxels
\* reachable from -1, of hop-distance(-1, v) + 1; the result is never
\* below 2.
C7_MeanNodeCount ==
    (CollapsedOnce /\ last.op = "shortest_distances_all"
        /\ ReachableFromBoundary # {}) =>
        /\ last.err = ""
        /\ last.val[1] = SumNodeCounts(ReachableFromBoundary)
        /\ last.val[2] = Cardinality(ReachableFromBoundary)
        /\ last.val[1] >= 2 * last.val[2]

C7_Witness ==
    /\ CollapsedOnce /\ Returned("shortest_distances_all")
    /\ \E v \in ReachableFromBoundary : HopDistance(v) >= 2
    /\ last.val[1] > 2 * last.val[2]

\* C8: for a single-phase image the boundary node has degree 0 and
\* shortest_distances_all, as well as getGraspiDescriptors, fails with
\* EmptyGraphError.
C8_EmptyGraphError ==
    (collapses >= 1 /\ SinglePhaseImage
        /\ last.op \in {"shortest_distances_all", "getGraspiDescriptors"}) =>
        /\ Degree(edges, Boundary) = 0
        /\ last.err = "EmptyGraphError"

\* C9 (as stated): a second makeInterfaceEdges on the collapsed graph object
\* changes the graph (node set, edge set or node attributes).
C9_SecondCollapseChangesGraph ==
    [][(collapses = 1 /\ collapses' = 2) =>
          <<nodes, edges, color>>' # <<nodes, edges, color>>]_vars

\* C9 (amended): a second makeInterfaceEdges on the collapsed graph object
\* leaves the graph as the first call left it: node set, edge set and node
\* attributes are unchanged.
C9_SecondCollapseKeepsGraph ==
    [][(collapses >= 1 /\ collapses' = collapses + 1) =>
          <<nodes, edges, color>>' = <<nodes, edges, color>>]_vars

C9_Witness ==
    /\ collapses = 2
    /\ last.op = "makeInterfaceEdges"
    /\ Neighbors(edges, Boundary) # {}

\* C10: when the image contains an adjacent pair of a 0-voxel and a 1-voxel,
\* every voxel of the collapsed graph, whatever its label, is reachable from
\* -1; shortest_distances_all then averages over all product(shape) voxels
\* and shortest_distances_phase never fails for a missing path.
C10_AllVoxelsReachable ==
    (CollapsedOnce /\ InterfaceAdjacencies # {}) =>
        /\ ReachableFromBoundary = AllVoxels
        /\ last.op = "shortest_distances_all" =>
               last.err = "" /\ last.val[2] = Size(shape)
        /\ last.op = "shortest_distances_phase" =>
               last.err # "NetworkXNoPath"

C10_Witness ==
    /\ CollapsedOnce /\ InterfaceAdjacencies # {}
    /\ Returned("shortest_distances_phase")
    /\ last.phase \notin {0, 1}
    /\ \E v \in AllVoxels : morph[v] = last.phase /\ HopDistance(v) >= 2

====
